---- MODULE Spec2Model ----
(***************************************************************************)
(* Model of the Vimeo library automation scripts of trop3n/automaton:      *)
(*   automaton-2.py  (variant "a2"), automaton.py (variant "a1") and       *)
(*   automaton_mp.py (variant "mp").                                       *)
(*                                                                         *)
(* Instants are seconds counted from 2024-03-09T00:00:00Z (a Saturday).    *)
(* A title is a sequence of tokens; a date occurs in a title exactly when  *)
(* the date string is one of its tokens (word tokens hold no digits).      *)
(* A URI is the sequence of its path segments.                             *)
(***************************************************************************)
EXTENDS Integers, Sequences, FiniteSets, TLC

VARIABLES
    variant,            \* which script runs: "a2", "a1" or "mp"
    env,                \* the credentials found in the environment
    account,            \* the hosting account: the listing, newest first
    run,                \* number of the current run of main
    pc,                 \* position of main
    since,              \* since_datetime of the current run
    recent,             \* recent_videos_from_api / videos_to_check
    todo,               \* videos_to_process / videos_for_processing
    idx,                \* index of the processing loop (1-based)
    counters,           \* the summary counters of the running variant
    calls,              \* the write requests the current run has sent, in order
    classified,         \* ids of the videos the current run has classified
    outcome,            \* how the current run of main ended, "running" before
    failed,             \* some request of this or an earlier run has failed
    probe               \* last call of a pure function (specification SpecFn)

vars == <<variant, env, account, run, pc, since, recent, todo, idx, counters,
          calls, classified, outcome, failed, probe>>

mainVars == <<variant, env, account, run, pc, since, recent, todo, idx,
              counters, calls, classified, outcome, failed>>

----------------------------------------------------------------------------
(* Bounds of the model *)

MaxVideos == 2
MaxRuns == 2

----------------------------------------------------------------------------
(* Configuration of the scripts *)

None == "None"
Raised == "Raised"

LOOKBACK_HOURS == 48

EXCLUDED_FOLDER_IDS == {"11103430", "182762", "8219992"}

DESTINATION_FOLDERS ==
    [ n \in {"Worship Services", "Weddings and Memorials", "Scott's Classes"} |->
        CASE n = "Worship Services" -> "15749517"
          [] n = "Weddings and Memorials" -> "2478125"
          [] n = "Scott's Classes" -> "15680946" ]

DestinationFolderIds == { DESTINATION_FOLDERS[n] : n \in DOMAIN DESTINATION_FOLDERS }

\* Mutant: the folder name of the memorial rules maps to an excluded folder
DestinationFoldersGet_Excluded(key) ==
    IF key = "Weddings and Memorials" THEN "182762"
    ELSE IF key \in DOMAIN DESTINATION_FOLDERS THEN DESTINATION_FOLDERS[key] ELSE None

\* dict.get(key): None for a missing key
DestinationFoldersGet(key) ==
    IF key \in DOMAIN DESTINATION_FOLDERS THEN DESTINATION_FOLDERS[key] ELSE None

\* An "HH:MM" string is the pair <<HH, MM>>.
AllDay == << <<0, 0>>, <<23, 59>> >>
Morning == << <<9, 20>>, <<12, 0>> >>

RuleIds == {"3261302", "4590739", "4972294", "3867304", "3251895", "3378887"}

SERVICE_TYPE_RULES ==
    [ e \in RuleIds |->
        CASE e = "3261302" -> [name |-> "Worship Service - Traditional",
                               folder |-> "Worship Services",
                               time_ranges |-> <<Morning>>]
          [] e = "4590739" -> [name |-> "Worship Service - Contemporary",
                               folder |-> "Worship Services",
                               time_ranges |-> <<Morning>>]
          [] e = "4972294" -> [name |-> "Memorials at St. Andrew",
                               folder |-> "Weddings and Memorials",
                               time_ranges |-> <<AllDay>>]
          [] e = "3867304" -> [name |-> "Weddings at St. Andrew",
                               folder |-> "Weddings and Memorials",
                               time_ranges |-> <<AllDay>>]
          [] e = "3251895" -> [name |-> "Class - Scott Engle's Tuesday Class",
                               folder |-> "Scott's Classes",
                               time_ranges |-> <<AllDay>>]
          [] e = "3378887" -> [name |-> "Class - Something Else Class",
                               folder |-> "Scott's Classes",
                               time_ranges |-> <<AllDay>>] ]

----------------------------------------------------------------------------
(* Time *)

\* datetime.time(): the clock time of an instant, in seconds after midnight UTC
TimeOfDay(dt) == dt % 86400

\* dt.strftime(DATE_FORMAT): the UTC calendar date of an instant
DateStrings == <<"2024-03-09", "2024-03-10", "2024-03-11">>
FormatDate(dt) == DateStrings[(dt \div 86400) + 1]

\* parse_time_string("HH:MM"): the clock time, in seconds after midnight
parse_time_string(hhmm) == hhmm[1] * 3600 + hhmm[2] * 60

\* A created_time as the API returns it: absent (None), a string that is no
\* ISO timestamp, or an ISO timestamp of the instant `at`.
NoTime == [kind |-> "missing", at |-> 0]
Malformed == [kind |-> "malformed", at |-> 0]
Iso(t) == [kind |-> "iso", at |-> t]

\* datetime.fromisoformat(s.replace('Z', '+00:00')) succeeds (no ValueError)
IsoParses(ct) == ct.kind = "iso"
\* ... and its value
FromIso(ct) == ct.at

----------------------------------------------------------------------------
(* Identifier extraction *)

IsDigits(seg) == seg \in (RuleIds \cup EXCLUDED_FOLDER_IDS \cup DestinationFolderIds
                          \cup {"101", "102", "103", "104", "777", "5550001"})

SetMin(S) == CHOOSE x \in S : \A y \in S : x <= y

\* re.search(rf'/{prefix}/(\d+)', uri): the digits after the first '/<prefix>/'
get_id_from_uri(uri, prefix) ==
    LET hits == { i \in 1..(Len(uri) - 1) : uri[i] = prefix /\ IsDigits(uri[i + 1]) }
    IN  IF uri = <<>> \/ hits = {} THEN None ELSE uri[SetMin(hits) + 1]

\* A value as get_id_from_uri can be handed it: None, a value that is no str
\* (an int, a dict), or a str, the sequence of its characters
NoneValue == [kind |-> "none", chars |-> <<>>]
OtherValue == [kind |-> "other", chars |-> <<>>]
RaisedValue == [kind |-> "raised", chars |-> <<>>]
Str(chars) == [kind |-> "str", chars |-> chars]

\* \d
IsDigit(c) == c \in {"1", "2"}

\* The pattern '/{prefix}/(\d+)' matches the text from position i on
MatchesAt(text, prefix, i) ==
    /\ i + Len(prefix) + 2 <= Len(text)
    /\ text[i] = "/"
    /\ SubSeq(text, i + 1, i + Len(prefix)) = prefix
    /\ text[i + Len(prefix) + 1] = "/"
    /\ IsDigit(text[i + Len(prefix) + 2])

\* (\d+), greedy: the digits from position j up to the first character that
\* is no digit
DigitsFrom(text, j) ==
    LET ends == { k \in j..Len(text) : ~IsDigit(text[k]) }
    IN  SubSeq(text, j, IF ends = {} THEN Len(text) ELSE SetMin(ends) - 1)

\* re.search(rf'/{prefix}/(\d+)', uri): group 1 of the leftmost match
SearchId(text, prefix) ==
    LET hits == { i \in 1..Len(text) : MatchesAt(text, prefix, i) }
    IN  IF hits = {} THEN NoneValue
        ELSE Str(DigitsFrom(text, SetMin(hits) + Len(prefix) + 2))

\* Mutant: without the isinstance test, re.search raises TypeError for a
\* value that is no str
get_id_from_uri_value_NoTypeTest(uri, prefix) ==
    IF uri.kind # "str" THEN RaisedValue
    ELSE SearchId(uri.chars, prefix)

\* get_id_from_uri on the value and the text of its argument
get_id_from_uri_value(uri, prefix) ==
    IF uri.kind # "str" \/ uri.chars = <<>> THEN NoneValue
    ELSE SearchId(uri.chars, prefix)

get_video_id_from_uri(uri) == get_id_from_uri(uri, "videos")
get_folder_id_from_uri(uri) == get_id_from_uri(uri, "folders")
get_live_event_id_from_uri(uri) == get_id_from_uri(uri, "live_events")

----------------------------------------------------------------------------
(* Classification, automaton-2.py *)

\* Mutant: the end of the range is excluded (half-open range)
TimeInRange_HalfOpen(t, start_str, end_str) ==
    LET start_time == parse_time_string(start_str)
        end_time == parse_time_string(end_str)
    IN  \/ (start_time <= end_time /\ start_time <= t /\ t < end_time)
        \/ (start_time > end_time /\ (t >= start_time \/ t < end_time))

\* Mutant: the overnight case joins its two comparisons with `and`
TimeInRange_WrapAnd(t, start_str, end_str) ==
    LET start_time == parse_time_string(start_str)
        end_time == parse_time_string(end_str)
    IN  \/ (start_time <= end_time /\ start_time <= t /\ t <= end_time)
        \/ (start_time > end_time /\ (t >= start_time /\ t <= end_time))

\* The test of one time range: clock time t (seconds) against (start, end)
TimeInRange(t, start_str, end_str) ==
    LET start_time == parse_time_string(start_str)
        end_time == parse_time_string(end_str)
    IN  \/ (start_time <= end_time /\ start_time <= t /\ t <= end_time)
        \/ (start_time > end_time /\ (t >= start_time \/ t <= end_time))

\* The loop over SERVICE_TYPE_RULES: the folder of the rule of the live event
\* when the creation time passes one of its time ranges, or cannot be read
MatchRules(live_event_id, ct) ==
    IF live_event_id \notin RuleIds THEN None
    ELSE LET rule_details == SERVICE_TYPE_RULES[live_event_id]
             ranges == rule_details.time_ranges
         IN  IF ct.kind = "missing" \/ ~IsoParses(ct)
             THEN DestinationFoldersGet(rule_details.folder)
             ELSE IF \E k \in 1..Len(ranges) :
                        TimeInRange(TimeOfDay(FromIso(ct)), ranges[k][1], ranges[k][2])
                  THEN DestinationFoldersGet(rule_details.folder)
                  ELSE None

\* `keyword in title.lower()` for the words the scripts and the design name
WordsOf(token) ==
    CASE token = "Sunday Worship" -> {"worship"}
      [] token = "Memorial Service" -> {"memorial"}
      [] token = "Scott's Class Recording" -> {"class"}
      [] OTHER -> {}

TitleWords(text) == UNION { WordsOf(text[k]) : k \in 1..Len(text) }

\* The folder name a title keyword stands for, None without a keyword
KeywordFolderName(text) ==
    IF TitleWords(text) \cap {"worship", "contemporary", "traditional"} # {}
    THEN "Worship Services"
    ELSE IF TitleWords(text) \cap {"memorial", "wedding"} # {}
    THEN "Weddings and Memorials"
    ELSE IF "class" \in TitleWords(text) THEN "Scott's Classes"
    ELSE None

\* Mutant: the title keyword is consulted first and overrides the event rule
determine_destination_folder_id_KeywordFirst(video_info) ==
    LET live_event_id == get_live_event_id_from_uri(video_info.live_event)
        kw == KeywordFolderName(video_info.name.text)
    IN  IF video_info.live_event = <<>> THEN None
        ELSE IF live_event_id = None THEN None
        ELSE IF kw # None THEN DestinationFoldersGet(kw)
        ELSE MatchRules(live_event_id, video_info.created_time)

\* Mutant: a video no event rule matched falls back to its title keyword
determine_destination_folder_id_KeywordFallback(video_info) ==
    LET live_event_id == get_live_event_id_from_uri(video_info.live_event)
        kw == KeywordFolderName(video_info.name.text)
        by_rule == IF video_info.live_event = <<>> \/ live_event_id = None
                   THEN None
                   ELSE MatchRules(live_event_id, video_info.created_time)
    IN  IF by_rule # None THEN by_rule
        ELSE IF kw # None THEN DestinationFoldersGet(kw)
        ELSE None

\* Mutant: the rule of the live event applies whatever the creation time
determine_destination_folder_id_IgnoresRanges(video_info) ==
    LET live_event_id == get_live_event_id_from_uri(video_info.live_event)
    IN  IF video_info.live_event = <<>> THEN None
        ELSE IF live_event_id \notin RuleIds THEN None
        ELSE DestinationFoldersGet(SERVICE_TYPE_RULES[live_event_id].folder)

determine_destination_folder_id(video_info) ==
    LET live_event_id == get_live_event_id_from_uri(video_info.live_event)
    IN  IF video_info.live_event = <<>> THEN None
        ELSE IF live_event_id = None THEN None
        ELSE MatchRules(live_event_id, video_info.created_time)

----------------------------------------------------------------------------
(* The hosting account and its API *)

PER_PAGE == 100

VideoIdOf(p) == ToString(100 + p)

\* The video of the account that a video id names (ids are unique)
PosOfId(acc, vid) == CHOOSE k \in 1..Len(acc) : get_video_id_from_uri(acc[k].uri) = vid
HasId(acc, vid) ==
    vid # None /\ \E k \in 1..Len(acc) : get_video_id_from_uri(acc[k].uri) = vid

\* PATCH /videos/{id} with data name: the account after a successful request
PatchName(acc, vid, new_title) ==
    IF HasId(acc, vid)
    THEN [acc EXCEPT ![PosOfId(acc, vid)].name = [kind |-> "str", text |-> new_title]]
    ELSE acc

\* Mutant: the request adds a copy of the video, lying in the folder
PutInFolder_AddsCopy(acc, vid, folder_id) ==
    IF HasId(acc, vid)
    THEN Append(acc, [acc[PosOfId(acc, vid)] EXCEPT !.parent_folder = <<"folders", folder_id>>])
    ELSE acc

\* PUT /users/{user}/folders/{folder}/videos/{id}: the account after a successful request
PutInFolder(acc, vid, folder_id) ==
    IF HasId(acc, vid)
    THEN [acc EXCEPT ![PosOfId(acc, vid)].parent_folder = <<"folders", folder_id>>]
    ELSE acc

\* A write request as sent: the video, the title or folder sent, whether it
\* succeeded, and (for a PATCH) the title the run had read for the video
PatchCall(vid, current_title, new_title, ok) ==
    [op |-> "patch", vid |-> vid, old |-> current_title, title |-> new_title,
     folder |-> None, ok |-> ok]
PutCall(vid, folder_id, ok) ==
    [op |-> "put", vid |-> vid, old |-> <<>>, title |-> <<>>, folder |-> folder_id,
     ok |-> ok]

\* Number of the last page of a listing (one empty page for an empty listing)
LastPage(listing) ==
    IF Len(listing) = 0 THEN 1 ELSE ((Len(listing) - 1) \div PER_PAGE) + 1
PageOf(listing, page) ==
    SubSeq(listing, (page - 1) * PER_PAGE + 1,
           IF page * PER_PAGE < Len(listing) THEN page * PER_PAGE ELSE Len(listing))

\* Mutant: only a title that starts with the date counts as dated
DateInTitle_StartsWith(formatted_date, text) == text # <<>> /\ text[1] = formatted_date

\* formatted_date in current_title
DateInTitle(formatted_date, text) == \E k \in 1..Len(text) : text[k] = formatted_date

\* Mutant: the date is put first, f"{formatted_date} - {current_title}"
AppendDate_Prefix(text, formatted_date) == <<formatted_date, " - ">> \o text

\* f"{current_title} ({formatted_date})"
AppendDate(text, formatted_date) == text \o <<" (", formatted_date, ")">>

\* datetime.now(timezone.utc) at the start of a run: 2024-03-11T12:00:00Z
Nows == {216000}

----------------------------------------------------------------------------
(* automaton-2.py *)

\* Mutant: an item created exactly at since_datetime counts as recent
ScanPage2_KeepsBoundary(videos_on_page, k, all_recent_videos, since_datetime) ==
    LET stops == { i \in k..Len(videos_on_page) :
                     /\ videos_on_page[i].created_time.kind # "missing"
                     /\ \/ ~IsoParses(videos_on_page[i].created_time)
                        \/ FromIso(videos_on_page[i].created_time) < since_datetime }
        last == IF stops = {} THEN Len(videos_on_page) ELSE SetMin(stops) - 1
        kept == SelectSeq(SubSeq(videos_on_page, k, last),
                          LAMBDA video : video.created_time.kind # "missing")
    IN  [videos |-> all_recent_videos \o kept,
         stop |-> stops # {},
         raised |-> stops # {} /\ ~IsoParses(videos_on_page[last + 1].created_time)]

\* The for loop over one page, from item k on: [videos, stop, raised].
\* The loop ends at the first item that has a created_time which does not
\* parse (fromisoformat raises) or is not later than since_datetime (return);
\* of the items before it, those with a created_time are appended.
ScanPage2(videos_on_page, k, all_recent_videos, since_datetime) ==
    LET stops == { i \in k..Len(videos_on_page) :
                     /\ videos_on_page[i].created_time.kind # "missing"
                     /\ \/ ~IsoParses(videos_on_page[i].created_time)
                        \/ ~(FromIso(videos_on_page[i].created_time) > since_datetime) }
        last == IF stops = {} THEN Len(videos_on_page) ELSE SetMin(stops) - 1
        kept == SelectSeq(SubSeq(videos_on_page, k, last),
                          LAMBDA video : video.created_time.kind # "missing")
    IN  [videos |-> all_recent_videos \o kept,
         stop |-> stops # {},
         raised |-> stops # {} /\ ~IsoParses(videos_on_page[last + 1].created_time)]

\* The while loop from page `page` on; the request of page errPage fails.
\* [videos, raised, pages]: pages is the number of the last page requested
RECURSIVE FetchPages2(_, _, _, _, _)
FetchPages2(listing, page, all_recent_videos, since_datetime, errPage) ==
    IF page = errPage
    THEN [videos |-> all_recent_videos, raised |-> FALSE, pages |-> page]
    ELSE LET videos_on_page == PageOf(listing, page)
         IN  IF videos_on_page = <<>>
             THEN [videos |-> all_recent_videos, raised |-> FALSE, pages |-> page]
             ELSE LET r == ScanPage2(videos_on_page, 1, all_recent_videos, since_datetime)
                  IN  IF r.stop
                      THEN [videos |-> r.videos, raised |-> r.raised, pages |-> page]
                      ELSE IF page >= LastPage(listing)
                      THEN [videos |-> r.videos, raised |-> FALSE, pages |-> page]
                      ELSE FetchPages2(listing, page + 1, r.videos, since_datetime, errPage)

get_recent_videos_with_folder_and_live_event_info(listing, since_datetime, errPage) ==
    FetchPages2(listing, 1, <<>>, since_datetime, errPage)

\* Mutant: the folder id is looked for after '/projects/', never found
InExcludedFolder2_WrongPrefix(video_info) ==
    LET folder_id == get_id_from_uri(video_info.parent_folder, "projects")
    IN  folder_id # None /\ folder_id \in EXCLUDED_FOLDER_IDS

\* The condition of the filtering loop of main that skips a video
InExcludedFolder2(video_info) ==
    LET folder_id == get_folder_id_from_uri(video_info.parent_folder)
    IN  folder_id # None /\ folder_id \in EXCLUDED_FOLDER_IDS

\* The filtering loop of main
FilterVideos2(videos) == SelectSeq(videos, LAMBDA v : ~InExcludedFolder2(v))

NoCounters2 == [processed_count |-> 0, skipped_count |-> 0]

Leave(how) ==
    /\ pc' = "done"
    /\ outcome' = how

\* Mutant: only the access token is looked at
CredentialsMissing2_TokenOnly(e) == ~e.token

\* not VIMEO_ACCESS_TOKEN or not VIMEO_CLIENT_ID or not VIMEO_CLIENT_SECRET
CredentialsMissing2(e) == ~e.token \/ ~e.client_id \/ ~e.client_secret

A2Start ==
    /\ variant = "a2" /\ pc = "start"
    /\ IF CredentialsMissing2(env)
       THEN Leave("no_credentials") /\ since' = since /\ failed' = failed
       ELSE \E authenticated \in BOOLEAN :
              IF ~authenticated
              THEN Leave("no_auth") /\ since' = since /\ failed' = TRUE
              ELSE /\ \E now \in Nows : /\ now - LOOKBACK_HOURS * 3600 >= since
                                        /\ since' = now - LOOKBACK_HOURS * 3600
                   /\ pc' = "fetch"
                   /\ outcome' = outcome
                   /\ failed' = failed
    /\ UNCHANGED <<variant, env, account, run, recent, todo, idx, counters, calls,
                   classified, probe>>

A2Fetch ==
    /\ variant = "a2" /\ pc = "fetch"
    /\ \E errPage \in 0..LastPage(account) :
         /\ failed' = (failed \/ errPage # 0)
         /\ LET r == get_recent_videos_with_folder_and_live_event_info(account, since, errPage)
            IN  IF r.raised
                THEN Leave("crashed") /\ recent' = recent
                ELSE IF r.videos = <<>>
                THEN Leave("no_recent") /\ recent' = r.videos
                ELSE pc' = "filter" /\ outcome' = outcome /\ recent' = r.videos
    /\ UNCHANGED <<variant, env, account, run, since, todo, idx, counters, calls,
                   classified, probe>>

A2Filter ==
    /\ variant = "a2" /\ pc = "filter"
    /\ todo' = FilterVideos2(recent)
    /\ IF todo' = <<>>
       THEN Leave("none_selected")
       ELSE pc' = "process" /\ outcome' = outcome
    /\ idx' = 1
    /\ counters' = NoCounters2
    /\ UNCHANGED <<variant, env, account, run, since, recent, calls, classified, failed, probe>>

\* Mutant: a failed title update ends the iteration, as an exception would
SortingReached2_OnlyAfterTitle(update, title_ok) == ~update \/ title_ok

\* Line 325 is reached whatever the title section did: update_video_title
\* returns False for a failed request and raises nothing
SortingReached2(update, title_ok) == TRUE

\* The answers a write request for video_id can get: a request for an id the
\* account does not hold (/videos/None) fails
Answers(acc, video_id) == IF HasId(acc, video_id) THEN BOOLEAN ELSE {FALSE}

\* One iteration of the processing loop of main
A2Process ==
    /\ variant = "a2" /\ pc = "process" /\ idx <= Len(todo)
    /\ LET video_info == todo[idx]
           video_id == get_video_id_from_uri(video_info.uri)
           name == video_info.name
           current_title == IF name.kind = "absent" THEN <<"Untitled">> ELSE name.text
           ct == video_info.created_time
           skip == [counters EXCEPT !.skipped_count = @ + 1]
       IN  IF ct.kind = "missing"
           THEN /\ counters' = skip
                /\ UNCHANGED <<account, calls, classified, failed>>
           ELSE IF ~IsoParses(ct) \/ name.kind = "null"
           THEN \* ValueError of fromisoformat, TypeError of `in None`: except Exception
                /\ counters' = skip
                /\ UNCHANGED <<account, calls, classified, failed>>
           ELSE
             LET formatted_date == FormatDate(FromIso(ct))
                 new_title == AppendDate(current_title, formatted_date)
                 update == ~DateInTitle(formatted_date, current_title)
                 destination_folder_id == determine_destination_folder_id(video_info)
             IN  \E title_ok \in (IF update THEN Answers(account, video_id) ELSE {TRUE}) :
                   LET move == /\ SortingReached2(update, title_ok)
                               /\ destination_folder_id # None
                       calls1 == IF update
                                 THEN Append(calls, PatchCall(video_id, current_title, new_title, title_ok))
                                 ELSE calls
                       account1 == IF update /\ title_ok
                                   THEN PatchName(account, video_id, new_title)
                                   ELSE account
                   IN  \E move_ok \in (IF move THEN Answers(account, video_id) ELSE {TRUE}) :
                         /\ counters' =
                              IF ~update THEN counters
                              ELSE IF title_ok
                              THEN [counters EXCEPT !.processed_count = @ + 1]
                              ELSE skip
                         /\ classified' = classified \cup {video_id}
                         /\ calls' = IF move
                                     THEN Append(calls1, PutCall(video_id,
                                                                 destination_folder_id, move_ok))
                                     ELSE calls1
                         /\ account' = IF move /\ move_ok
                                       THEN PutInFolder(account1, video_id, destination_folder_id)
                                       ELSE account1
                         /\ failed' = (failed \/ ~title_ok \/ ~move_ok)
    /\ idx' = idx + 1
    /\ UNCHANGED <<variant, env, run, pc, since, recent, todo, outcome, probe>>

A2Summary ==
    /\ variant = "a2" /\ pc = "process" /\ idx > Len(todo)
    /\ Leave("summary")
    /\ UNCHANGED <<variant, env, account, run, since, recent, todo, idx, counters, calls,
                   classified, failed, probe>>

----------------------------------------------------------------------------
(* automaton.py *)

\* The for loop over one page, from item k on: [videos, stop, found], found
\* being found_recent_on_page. The loop returns at the first item whose
\* created_time parses and is not later than since_datetime; of the items
\* before it, those whose created_time parses are appended (a missing or
\* unparseable created_time is passed over with a warning).
ScanPage1(videos_on_page, k, all_recent_videos, since_datetime, found) ==
    LET stops == { i \in k..Len(videos_on_page) :
                     /\ videos_on_page[i].created_time.kind # "missing"
                     /\ IsoParses(videos_on_page[i].created_time)
                     /\ ~(FromIso(videos_on_page[i].created_time) > since_datetime) }
        last == IF stops = {} THEN Len(videos_on_page) ELSE SetMin(stops) - 1
        kept == SelectSeq(SubSeq(videos_on_page, k, last),
                          LAMBDA video : /\ video.created_time.kind # "missing"
                                         /\ IsoParses(video.created_time))
    IN  [videos |-> all_recent_videos \o kept,
         stop |-> stops # {},
         found |-> found \/ kept # <<>>]

RECURSIVE FetchPages1(_, _, _, _, _)
FetchPages1(listing, page, all_recent_videos, since_datetime, errPage) ==
    IF page = errPage
    THEN all_recent_videos
    ELSE LET videos_on_page == PageOf(listing, page)
         IN  IF videos_on_page = <<>>
             THEN all_recent_videos
             ELSE LET r == ScanPage1(videos_on_page, 1, all_recent_videos,
                                     since_datetime, FALSE)
                  IN  IF r.stop THEN r.videos
                      ELSE IF page >= LastPage(listing) \/ ~r.found
                      THEN r.videos
                      ELSE FetchPages1(listing, page + 1, r.videos, since_datetime, errPage)

get_recent_videos_with_folder_and_live_event_info1(listing, since_datetime, errPage) ==
    FetchPages1(listing, 1, <<>>, since_datetime, errPage)

\* is_excluded_folder of the filtering loop of main
InExcludedFolder1(video_info) ==
    LET folder_id == get_folder_id_from_uri(video_info.parent_folder)
    IN  /\ video_info.parent_folder # <<>>
        /\ folder_id # None
        /\ folder_id \in EXCLUDED_FOLDER_IDS

\* The filtering loop of main: a video without an id is dropped too
FilterVideos1(videos) ==
    SelectSeq(videos, LAMBDA v : /\ get_video_id_from_uri(v.uri) # None
                                 /\ ~InExcludedFolder1(v))

SkippedByFolder1(videos) ==
    Len(SelectSeq(videos, LAMBDA v : /\ get_video_id_from_uri(v.uri) # None
                                     /\ InExcludedFolder1(v)))

\* determine_destination_folder_id of automaton.py: a folder id, None, or Raised.
\* For the rule of the live event, line 328 applies unary minus to a
\* datetime.time (TypeError) and line 343 reads the key "folder_key", which no
\* rule has (KeyError).
determine_destination_folder_id1(video_info) ==
    LET live_event_id == get_live_event_id_from_uri(video_info.live_event)
    IN  IF video_info.live_event = <<>> THEN None
        ELSE IF live_event_id = None THEN None
        ELSE IF live_event_id \in RuleIds THEN Raised
        ELSE None

NoCounters1 ==
    [videos_updated_title_count |-> 0, videos_skipped_title_update |-> 0,
     videos_sorted_count |-> 0, videos_skipped_sorting |-> 0,
     skipped_by_folder_count |-> 0]

\* not VIMEO_ACCESS_TOKEN and not (VIMEO_CLIENT_ID and VIMEO_CLIENT_SECRET)
CredentialsMissing1(e) == ~e.token /\ ~(e.client_id /\ e.client_secret)

A1Start ==
    /\ variant = "a1" /\ pc = "start"
    /\ IF CredentialsMissing1(env)
       THEN Leave("no_credentials") /\ since' = since /\ failed' = failed
       ELSE \E authenticated \in BOOLEAN :
              IF ~authenticated
              THEN Leave("no_auth") /\ since' = since /\ failed' = TRUE
              ELSE /\ \E now \in Nows : /\ now - LOOKBACK_HOURS * 3600 >= since
                                        /\ since' = now - LOOKBACK_HOURS * 3600
                   /\ pc' = "fetch"
                   /\ outcome' = outcome
                   /\ failed' = failed
    /\ UNCHANGED <<variant, env, account, run, recent, todo, idx, counters, calls,
                   classified, probe>>

A1Fetch ==
    /\ variant = "a1" /\ pc = "fetch"
    /\ \E errPage \in 0..LastPage(account) :
         /\ failed' = (failed \/ errPage # 0)
         /\ recent' = get_recent_videos_with_folder_and_live_event_info1(account, since, errPage)
         /\ IF recent' = <<>>
            THEN Leave("no_recent")
            ELSE pc' = "filter" /\ outcome' = outcome
    /\ UNCHANGED <<variant, env, account, run, since, todo, idx, counters, calls,
                   classified, probe>>

A1Filter ==
    /\ variant = "a1" /\ pc = "filter"
    /\ todo' = FilterVideos1(recent)
    /\ IF todo' = <<>>
       THEN Leave("none_selected")
       ELSE pc' = "process" /\ outcome' = outcome
    /\ idx' = 1
    /\ counters' = [NoCounters1 EXCEPT !.skipped_by_folder_count = SkippedByFolder1(recent)]
    /\ UNCHANGED <<variant, env, account, run, since, recent, calls, classified, failed, probe>>

\* Mutant: a video that is not sorted is left out of videos_skipped_sorting
SkippedSorting1_Uncounted(c) == c

\* videos_skipped_sorting += 1
SkippedSorting1(c) == [c EXCEPT !.videos_skipped_sorting = @ + 1]

\* One iteration of the processing loop of main
A1Process ==
    /\ variant = "a1" /\ pc = "process" /\ idx <= Len(todo)
    /\ LET video_info == todo[idx]
           video_id == get_video_id_from_uri(video_info.uri)
           name == video_info.name
           ct == video_info.created_time
           no_title == name.kind # "str" \/ name.text = <<>>
           parses == ct.kind # "missing" /\ IsoParses(ct)
           update == /\ ~no_title /\ parses
                     /\ ~DateInTitle(FormatDate(FromIso(ct)), name.text)
           new_title == AppendDate(name.text, FormatDate(FromIso(ct)))
       IN  IF video_id = None
           THEN /\ counters' = [counters EXCEPT !.videos_skipped_title_update = @ + 1,
                                               !.videos_skipped_sorting = @ + 1]
                /\ UNCHANGED <<account, calls, classified, pc, outcome, failed>>
           ELSE
             \E title_ok \in (IF update THEN BOOLEAN ELSE {TRUE}) :
               LET counters1 ==
                     IF update /\ title_ok
                     THEN [counters EXCEPT !.videos_updated_title_count = @ + 1]
                     ELSE [counters EXCEPT !.videos_skipped_title_update = @ + 1]
                   calls1 == IF update
                             THEN Append(calls, PatchCall(video_id, name.text, new_title, title_ok))
                             ELSE calls
                   account1 == IF update /\ title_ok
                               THEN PatchName(account, video_id, new_title)
                               ELSE account
                   destination_folder_id == determine_destination_folder_id1(video_info)
                   current_parent_folder_id == get_folder_id_from_uri(video_info.parent_folder)
               IN  /\ classified' = classified \cup {video_id}
                   /\ IF destination_folder_id = Raised
                      THEN \* uncaught: main ends with a traceback
                           /\ Leave("crashed")
                           /\ counters' = counters1
                           /\ calls' = calls1
                           /\ account' = account1
                           /\ failed' = (failed \/ ~title_ok)
                      ELSE IF destination_folder_id = None
                      THEN /\ counters' = SkippedSorting1(counters1)
                           /\ calls' = calls1
                           /\ account' = account1
                           /\ failed' = (failed \/ ~title_ok)
                           /\ UNCHANGED <<pc, outcome>>
                      ELSE IF current_parent_folder_id = destination_folder_id
                      THEN /\ counters' = SkippedSorting1(counters1)
                           /\ calls' = calls1
                           /\ account' = account1
                           /\ failed' = (failed \/ ~title_ok)
                           /\ UNCHANGED <<pc, outcome>>
                      ELSE \E move_ok \in BOOLEAN :
                             /\ counters' =
                                  IF move_ok
                                  THEN [counters1 EXCEPT !.videos_sorted_count = @ + 1]
                                  ELSE SkippedSorting1(counters1)
                             /\ calls' = Append(calls1, PutCall(video_id,
                                                                destination_folder_id, move_ok))
                             /\ account' = IF move_ok
                                           THEN PutInFolder(account1, video_id,
                                                            destination_folder_id)
                                           ELSE account1
                             /\ failed' = (failed \/ ~title_ok \/ ~move_ok)
                             /\ UNCHANGED <<pc, outcome>>
    /\ idx' = idx + 1
    /\ UNCHANGED <<variant, env, run, since, recent, todo, probe>>

A1Summary ==
    /\ variant = "a1" /\ pc = "process" /\ idx > Len(todo)
    /\ Leave("summary")
    /\ UNCHANGED <<variant, env, account, run, since, recent, todo, idx, counters, calls,
                   classified, failed, probe>>

----------------------------------------------------------------------------
(* automaton_mp.py *)

\* The threshold in minutes; line 128 reads another name
MAX_TIME_DIFFERENCE == 60

\* STREAMING_LOCATION_IDS is empty, so get_mp_events_in_range returns [] on
\* every path (no token: line 79; no location ids: line 87).
STREAMING_LOCATION_IDS == {}
get_mp_events_in_range(has_token) ==
    IF ~has_token THEN <<>>
    ELSE IF STREAMING_LOCATION_IDS = {} THEN <<>>
    ELSE <<>>

\* get_recent_videos: line 148 calls datetime.isoformat on a str, a TypeError
\* for the first item of the listing, caught at line 153 before anything was
\* appended; a failed request is caught there too.
get_recent_videos(listing, request_ok) ==
    IF ~request_ok THEN <<>>
    ELSE IF listing = <<>> THEN <<>>
    ELSE <<>>

\* find_closest_event_in_cache: None for an empty cache; for any other cache
\* line 128 reads MAX_TIME_DIFFERENCE_MINUTES, a name the module never
\* defines (NameError).
find_closest_event_in_cache(video_creation_time_utc, events_cache) ==
    IF events_cache = <<>> THEN None ELSE Raised

\* Mutant: the video is moved although its title was not updated
process_video_MovesUntitled(video_data, events_cache) ==
    [title_updated |-> FALSE, moved |-> TRUE, raised |-> FALSE]

\* process_video: [title_updated, moved, raised]
process_video(video_data, events_cache) ==
    LET ct == video_data.created_time
    IN  IF ct.kind = "missing" \/ ~IsoParses(ct)
        THEN [title_updated |-> FALSE, moved |-> FALSE, raised |-> TRUE]
        ELSE IF find_closest_event_in_cache(FromIso(ct), events_cache) = Raised
        THEN [title_updated |-> FALSE, moved |-> FALSE, raised |-> TRUE]
        ELSE [title_updated |-> FALSE, moved |-> FALSE, raised |-> FALSE]

NoCountersMp ==
    [scanned_count |-> 0, processed_count |-> 0, updated_count |-> 0, moved_count |-> 0]

\* The for loop of main from item k on: [counters, raised]
RECURSIVE MainLoopMp(_, _, _, _)
MainLoopMp(videos_to_check, k, events_cache, c) ==
    IF k > Len(videos_to_check)
    THEN [counters |-> c, raised |-> FALSE]
    ELSE LET video == videos_to_check[k]
             parent_folder == video.parent_folder
         IN  IF ~video.is_playable
             THEN MainLoopMp(videos_to_check, k + 1, events_cache, c)
             ELSE IF parent_folder # <<>>
             THEN IF parent_folder[Len(parent_folder)] \in EXCLUDED_FOLDER_IDS
                  THEN MainLoopMp(videos_to_check, k + 1, events_cache, c)
                  ELSE \* line 253 reads parent_folder_iod: NameError
                       [counters |-> c, raised |-> TRUE]
             ELSE LET c1 == [c EXCEPT !.processed_count = @ + 1]
                      stats == process_video(video, events_cache)
                  IN  IF stats.raised
                      THEN [counters |-> c1, raised |-> TRUE]
                      ELSE MainLoopMp(videos_to_check, k + 1, events_cache,
                                      [c1 EXCEPT !.updated_count =
                                                   IF stats.title_updated THEN @ + 1 ELSE @,
                                                 !.moved_count =
                                                   IF stats.moved THEN @ + 1 ELSE @])

\* not all([VIMEO_ACCESS_TOKEN, VIMEO_CLIENT_ID, VIMEO_CLIENT_SECRET])
CredentialsMissingMp(e) == ~(e.token /\ e.client_id /\ e.client_secret)

MpStart ==
    /\ variant = "mp" /\ pc = "start"
    /\ IF CredentialsMissingMp(env)
       THEN Leave("no_credentials") /\ failed' = failed
       ELSE \E me \in {"ok", "status", "raise"} :
              CASE me = "raise" -> Leave("crashed") /\ failed' = TRUE
                [] me = "status" -> Leave("no_auth") /\ failed' = TRUE
                [] me = "ok" -> pc' = "fetch" /\ outcome' = outcome /\ failed' = failed
    /\ UNCHANGED <<variant, env, account, run, since, recent, todo, idx, counters, calls,
                   classified, probe>>

MpFetch ==
    /\ variant = "mp" /\ pc = "fetch"
    /\ \E request_ok \in BOOLEAN :
         /\ recent' = get_recent_videos(account, request_ok)
         /\ failed' = (failed \/ ~request_ok)
         /\ counters' = [NoCountersMp EXCEPT !.scanned_count = Len(recent')]
    /\ pc' = "process"
    /\ UNCHANGED <<variant, env, account, run, since, todo, idx, calls, classified,
                   outcome, probe>>

\* The loop of main over videos_to_check and the summary
MpProcess ==
    /\ variant = "mp" /\ pc = "process"
    /\ \E has_token \in BOOLEAN :
         LET r == MainLoopMp(recent, 1, get_mp_events_in_range(has_token), counters)
         IN  /\ counters' = r.counters
             /\ Leave(IF r.raised THEN "crashed" ELSE "summary")
    /\ UNCHANGED <<variant, env, account, run, since, recent, todo, idx, calls,
                   classified, failed, probe>>

----------------------------------------------------------------------------
(* The runs of main *)

Names ==
    { [kind |-> "str", text |-> <<"Sunday Worship">>],
      [kind |-> "str", text |-> <<"2024-03-11", " Sunday Worship">>] }

\* The recordings of the account that every run fetches: the live event a
\* video comes from and its creation time.
\*   2024-03-11T02:00:00Z is 2024-03-10 21:00 in America/Chicago;
\*   2024-03-10T15:15:00Z is Sunday 2024-03-10 10:15 in America/Chicago.
Recordings ==
    { [live_event |-> <<>>, created_time |-> Iso(180000)],
      [live_event |-> <<"live_events", "4972294">>, created_time |-> Iso(180000)],
      [live_event |-> <<"live_events", "3261302">>, created_time |-> Iso(141300)] }

ParentFolders == { <<>>, <<"folders", "182762">> }

Envs ==
    { [token |-> TRUE, client_id |-> TRUE, client_secret |-> TRUE],
      [token |-> FALSE, client_id |-> FALSE, client_secret |-> FALSE] }

\* A video older than every since_datetime (2024-03-09T10:00:00Z): no run
\* fetches it, so its other fields take one value.
OldVideo ==
    [ name |-> [kind |-> "str", text |-> <<"Sunday Worship">>],
      created_time |-> Iso(36000), parent_folder |-> <<>>, live_event |-> <<>>,
      is_playable |-> TRUE ]

\* A recording that is not playable: undated, of the memorial live event, in
\* no folder (automaton-2.py and automaton.py never read is_playable)
UnplayableVideo ==
    [ name |-> [kind |-> "str", text |-> <<"Sunday Worship">>],
      created_time |-> Iso(180000), parent_folder |-> <<>>,
      live_event |-> <<"live_events", "4972294">>, is_playable |-> FALSE ]

Videos ==
    { [ name |-> n, created_time |-> r.created_time, parent_folder |-> f,
        live_event |-> r.live_event, is_playable |-> TRUE ] :
        n \in Names, r \in Recordings, f \in ParentFolders }
    \cup { UnplayableVideo, OldVideo }

\* The listing is sorted by creation time, newest first
NewestFirst(listing) ==
    \A j, k \in 1..Len(listing) :
        j < k => listing[j].created_time.at >= listing[k].created_time.at

WithUri(v, p) ==
    [uri |-> <<"videos", VideoIdOf(p)>>, name |-> v.name, created_time |-> v.created_time,
     parent_folder |-> v.parent_folder, live_event |-> v.live_event,
     is_playable |-> v.is_playable]

Accounts ==
    UNION { { [p \in 1..n |-> WithUri(l[p], p)] : l \in { m \in [1..n -> Videos] : NewestFirst(m) } }
            : n \in 0..MaxVideos }

NoCounters(v) ==
    CASE v = "a2" -> NoCounters2
      [] v = "a1" -> NoCounters1
      [] v = "mp" -> NoCountersMp

NoProbe == [op |-> "none"]

Init ==
    /\ variant \in {"a2", "a1", "mp"}
    /\ env \in Envs
    /\ account \in Accounts
    /\ run = 1
    /\ pc = "start"
    /\ since = 0
    /\ recent = <<>>
    /\ todo = <<>>
    /\ idx = 1
    /\ counters = NoCounters(variant)
    /\ calls = <<>>
    /\ classified = {}
    /\ outcome = "running"
    /\ failed = FALSE
    /\ probe = NoProbe

\* main is started again, on the account as the last run left it
NextRun ==
    /\ pc = "done" /\ run < MaxRuns
    /\ run' = run + 1
    /\ pc' = "start"
    /\ outcome' = "running"
    /\ recent' = <<>>
    /\ todo' = <<>>
    /\ idx' = 1
    /\ counters' = NoCounters(variant)
    /\ calls' = <<>>
    /\ classified' = {}
    /\ UNCHANGED <<variant, env, account, since, failed, probe>>

Next ==
    \/ A2Start \/ A2Fetch \/ A2Filter \/ A2Process \/ A2Summary
    \/ A1Start \/ A1Fetch \/ A1Filter \/ A1Process \/ A1Summary
    \/ MpStart \/ MpFetch \/ MpProcess
    \/ NextRun

Spec == Init /\ [][Next]_vars

----------------------------------------------------------------------------
(* Calls of the pure functions on their own: specification SpecFn *)

\* Clock times, in seconds after midnight: 00:00:00, 01:00:00, 02:00:00,
\* 02:00:30, 09:19:59, 09:20:00, 09:30:00, 10:00:00, 12:00:00, 12:00:01,
\* 15:15:00, 22:00:00, 23:45:00, 23:59:00, 23:59:30
ClockTimes ==
    { 0, 3600, 7200, 7230, 33599, 33600, 34200, 36000, 43200, 43201,
      54900, 79200, 85500, 86340, 86370 }

\* "HH:MM" strings
ClockStrings == { <<0, 0>>, <<2, 0>>, <<9, 20>>, <<12, 0>>, <<22, 0>>, <<23, 59>> }

FnNames ==
    { [kind |-> "str", text |-> <<"Sermon">>],
      [kind |-> "str", text |-> <<"Sunday Worship">>],
      [kind |-> "str", text |-> <<"Memorial Service">>],
      [kind |-> "str", text |-> <<"Scott's Class Recording">>] }

\* Days 2024-03-09 (Saturday) and 2024-03-10 (Sunday), at each clock time
FnCreatedTimes ==
    { NoTime, Malformed } \cup { Iso(d * 86400 + t) : d \in {0, 1}, t \in ClockTimes }

FnLiveEvents ==
    { <<>>, <<"live_events", "3261302">>, <<"live_events", "4972294">>,
      <<"live_events", "3867304">>, <<"live_events", "3251895">>,
      <<"live_events", "3378887">>, <<"live_events", "777">>, <<"videos", "101">> }

FnVideos ==
    [ uri : {<<"videos", "101">>}, name : FnNames, created_time : FnCreatedTimes,
      parent_folder : {<<>>}, live_event : FnLiveEvents, is_playable : {TRUE} ]

InitFn ==
    /\ variant = "a2"
    /\ env \in {e \in Envs : e.token}
    /\ account = <<>>
    /\ run = 1
    /\ pc = "fn"
    /\ since = 0
    /\ recent = <<>>
    /\ todo = <<>>
    /\ idx = 1
    /\ counters = NoCounters2
    /\ calls = <<>>
    /\ classified = {}
    /\ outcome = "running"
    /\ failed = FALSE
    /\ probe = NoProbe

\* The time-window test of determine_destination_folder_id is applied
FnTimeInRange ==
    /\ pc = "fn" /\ probe.op = "none"
    /\ \E t \in ClockTimes, start_str \in ClockStrings, end_str \in ClockStrings :
         probe' = [op |-> "time_in_range", t |-> t, start |-> start_str, end |-> end_str,
                   result |-> TimeInRange(t, start_str, end_str)]
    /\ UNCHANGED mainVars

\* determine_destination_folder_id of automaton-2.py is called
FnDetermine ==
    /\ pc = "fn" /\ probe.op = "none"
    /\ \E video_info \in FnVideos :
         probe' = [op |-> "determine", video |-> video_info,
                   result |-> determine_destination_folder_id(video_info)]
    /\ UNCHANGED mainVars

\* Listings of n items, newest first: r recent recordings, then (when b) an
\* item created exactly at since_datetime, then old videos
FetchLengths == { 0, 1, 2, 99, 100, 101, 150, 200, 201 }

FetchListing(n, r, b, since_datetime) ==
    [ p \in 1..n |->
        WithUri([ name |-> [kind |-> "str", text |-> <<"Sunday Worship">>],
                  created_time |-> IF p <= r THEN Iso(180000)
                                   ELSE IF b /\ p = r + 1 THEN Iso(since_datetime)
                                   ELSE Iso(36000),
                  parent_folder |-> <<>>, live_event |-> <<>>, is_playable |-> TRUE ], p) ]

\* get_recent_videos_with_folder_and_live_event_info of automaton-2.py is
\* called, every request succeeding
FnFetch2 ==
    /\ pc = "fn" /\ probe.op = "none"
    /\ \E n \in FetchLengths, r \in FetchLengths, b \in BOOLEAN, now \in Nows :
         /\ r <= n
         /\ LET since_datetime == now - LOOKBACK_HOURS * 3600
                listing == FetchListing(n, r, b, since_datetime)
                res == get_recent_videos_with_folder_and_live_event_info(
                           listing, since_datetime, 0)
            IN  probe' = [op |-> "fetch", listing |-> listing, since |-> since_datetime,
                          result |-> res.videos, raised |-> res.raised,
                          pages |-> res.pages]
    /\ UNCHANGED mainVars

\* Events of the cache: starting 30 minutes before, 30 minutes after and 90
\* minutes after 2024-03-10T15:15:00Z
FnEvents ==
    { [Event_Title |-> "Sunday Worship", Event_Start_Date_dt |-> 139500],
      [Event_Title |-> "Memorial Service", Event_Start_Date_dt |-> 143100],
      [Event_Title |-> "Scott's Class", Event_Start_Date_dt |-> 146700] }

FnCaches == UNION { [1..n -> FnEvents] : n \in 0..2 }

\* find_closest_event_in_cache of automaton_mp.py is called
FnFindClosest ==
    /\ pc = "fn" /\ probe.op = "none"
    /\ \E events_cache \in FnCaches :
         probe' = [op |-> "closest", t |-> 141300, cache |-> events_cache,
                   result |-> find_closest_event_in_cache(141300, events_cache)]
    /\ UNCHANGED mainVars

\* determine_destination_folder_id of automaton.py is called
FnDetermine1 ==
    /\ pc = "fn" /\ probe.op = "none"
    /\ \E video_info \in FnVideos :
         probe' = [op |-> "determine1", video |-> video_info,
                   result |-> determine_destination_folder_id1(video_info)]
    /\ UNCHANGED mainVars

\* Listings of automaton.py's fetch, newest first: r1 recent recordings, u
\* items whose created_time is missing or does not parse, r2 recent
\* recordings, then o old videos
BlockLengths == { 0, 1, 100 }

FetchListing1(r1, u, undated, r2, o) ==
    [ p \in 1..(r1 + u + r2 + o) |->
        WithUri([ name |-> [kind |-> "str", text |-> <<"Sunday Worship">>],
                  created_time |-> IF p <= r1 THEN Iso(180000)
                                   ELSE IF p <= r1 + u THEN undated
                                   ELSE IF p <= r1 + u + r2 THEN Iso(180000)
                                   ELSE Iso(36000),
                  parent_folder |-> <<>>, live_event |-> <<>>, is_playable |-> TRUE ], p) ]

\* get_recent_videos_with_folder_and_live_event_info of automaton.py is
\* called, every request succeeding
FnFetch1 ==
    /\ pc = "fn" /\ probe.op = "none"
    /\ \E r1 \in BlockLengths, u \in BlockLengths, undated \in {NoTime, Malformed},
          r2 \in BlockLengths, o \in BlockLengths, now \in Nows :
         LET since_datetime == now - LOOKBACK_HOURS * 3600
             listing == FetchListing1(r1, u, undated, r2, o)
         IN  probe' = [op |-> "fetch1", listing |-> listing, since |-> since_datetime,
                       result |-> get_recent_videos_with_folder_and_live_event_info1(
                                      listing, since_datetime, 0)]
    /\ UNCHANGED mainVars

\* Texts of URIs: every text of at most MaxUriLen characters over '/', two
\* letters and two digits, and the longer texts '/x/1/v/2' and '/xv/12/v'
MaxUriLen == 5
UriChars == { "/", "v", "x", "1", "2" }
UriTexts ==
    UNION { [1..n -> UriChars] : n \in 0..MaxUriLen }
    \cup { <<"/", "x", "/", "1", "/", "v", "/", "2">>,
           <<"/", "x", "v", "/", "1", "2", "/", "v">> }
UriValues == { NoneValue, OtherValue } \cup { Str(t) : t \in UriTexts }

\* The resource kinds 'v', 'x' and 'xv'
UriPrefixes == { <<"v">>, <<"x">>, <<"x", "v">> }

\* get_id_from_uri of automaton-2.py is called
FnGetId ==
    /\ pc = "fn" /\ probe.op = "none"
    /\ \E uri \in UriValues, prefix \in UriPrefixes :
         probe' = [op |-> "get_id", uri |-> uri, prefix |-> prefix,
                   result |-> get_id_from_uri_value(uri, prefix)]
    /\ UNCHANGED mainVars

NextFn == FnTimeInRange \/ FnDetermine \/ FnFetch2 \/ FnFindClosest \/ FnGetId
    \/ FnDetermine1 \/ FnFetch1

SpecFn == InitFn /\ [][NextFn]_vars

----------------------------------------------------------------------------
(* Runs of automaton-2.py over listings with defective items: SpecA2 *)

\* A name that is a string, a name the item lacks, a name that is null
OddNames ==
    { [kind |-> "str", text |-> <<"Scott's Class Recording">>],
      [kind |-> "absent", text |-> <<>>],
      [kind |-> "null", text |-> <<>>] }

OddCreatedTimes == { Iso(180000), NoTime, Malformed }

\* Items of the memorial live event with or without name, creation time and
\* uri; a sound item without live event, in no folder and in an excluded one
OddVideos ==
    { [ name |-> n, created_time |-> c, parent_folder |-> <<>>,
        live_event |-> <<"live_events", "4972294">>, is_playable |-> TRUE,
        has_uri |-> u ] : n \in OddNames, c \in OddCreatedTimes, u \in BOOLEAN }
    \cup
    { [ name |-> [kind |-> "str", text |-> <<"Scott's Class Recording">>],
        created_time |-> Iso(180000), parent_folder |-> f, live_event |-> <<>>,
        is_playable |-> TRUE, has_uri |-> TRUE ] : f \in ParentFolders }

\* video.get('uri') is None for an item without uri
WithOddUri(v, p) ==
    IF v.has_uri THEN WithUri(v, p) ELSE [WithUri(v, p) EXCEPT !.uri = <<>>]

OddAccounts ==
    UNION { { [p \in 1..n |-> WithOddUri(l[p], p)] : l \in [1..n -> OddVideos] }
            : n \in 0..MaxVideos }

InitA2 ==
    /\ variant = "a2"
    /\ env = [token |-> TRUE, client_id |-> TRUE, client_secret |-> TRUE]
    /\ account \in OddAccounts
    /\ run = 1
    /\ pc = "start"
    /\ since = 0
    /\ recent = <<>>
    /\ todo = <<>>
    /\ idx = 1
    /\ counters = NoCounters2
    /\ calls = <<>>
    /\ classified = {}
    /\ outcome = "running"
    /\ failed = FALSE
    /\ probe = NoProbe

NextA2 == A2Start \/ A2Fetch \/ A2Filter \/ A2Process \/ A2Summary

SpecA2 == InitA2 /\ [][NextA2]_vars

----------------------------------------------------------------------------
(* Runs of main under every setting of the credentials: SpecCreds *)

AllEnvs == [token : BOOLEAN, client_id : BOOLEAN, client_secret : BOOLEAN]

\* An undated recording without live event in no folder, and an old video
CredVideos ==
    { [ name |-> [kind |-> "str", text |-> <<"Sunday Worship">>],
        created_time |-> Iso(180000), parent_folder |-> <<>>, live_event |-> <<>>,
        is_playable |-> TRUE ],
      OldVideo }

CredAccounts ==
    UNION { { [p \in 1..n |-> WithUri(l[p], p)] :
                l \in { m \in [1..n -> CredVideos] : NewestFirst(m) } }
            : n \in 0..MaxVideos }

InitCreds ==
    /\ variant \in {"a2", "a1", "mp"}
    /\ env \in AllEnvs
    /\ account \in CredAccounts
    /\ run = 1
    /\ pc = "start"
    /\ since = 0
    /\ recent = <<>>
    /\ todo = <<>>
    /\ idx = 1
    /\ counters = NoCounters(variant)
    /\ calls = <<>>
    /\ classified = {}
    /\ outcome = "running"
    /\ failed = FALSE
    /\ probe = NoProbe

SpecCreds == InitCreds /\ [][Next]_vars

----------------------------------------------------------------------------
(* Runs of automaton_mp.py, and calls of its process_video and of the loop *)
(* of its main on their own: SpecMp                                        *)

\* Lists of videos_to_check, in any order
MpChecked ==
    UNION { { [p \in 1..n |-> WithUri(l[p], p)] : l \in [1..n -> Videos] }
            : n \in 0..MaxVideos }

InitMp ==
    /\ variant = "mp"
    /\ env \in Envs
    /\ \/ account \in Accounts /\ pc = "start"
       \/ account = <<>> /\ pc = "fn"
    /\ run = 1
    /\ since = 0
    /\ recent = <<>>
    /\ todo = <<>>
    /\ idx = 1
    /\ counters = NoCountersMp
    /\ calls = <<>>
    /\ classified = {}
    /\ outcome = "running"
    /\ failed = FALSE
    /\ probe = NoProbe

\* process_video is called
FnProcessVideo ==
    /\ pc = "fn" /\ probe.op = "none"
    /\ \E videos_to_check \in MpChecked, events_cache \in FnCaches :
         /\ Len(videos_to_check) = 1
         /\ probe' = [op |-> "process_video", video |-> videos_to_check[1],
                      cache |-> events_cache,
                      result |-> process_video(videos_to_check[1], events_cache)]
    /\ UNCHANGED mainVars

\* The for loop of main runs over videos_to_check, from counters as line 234
\* sets them
FnMainLoopMp ==
    /\ pc = "fn" /\ probe.op = "none"
    /\ \E videos_to_check \in MpChecked, events_cache \in FnCaches :
         probe' = [op |-> "main_loop", videos |-> videos_to_check, cache |-> events_cache,
                   result |-> MainLoopMp(videos_to_check, 1, events_cache,
                                         [NoCountersMp EXCEPT !.scanned_count =
                                                                Len(videos_to_check)])]
    /\ UNCHANGED mainVars

NextMp == MpStart \/ MpFetch \/ MpProcess \/ NextRun \/ FnProcessVideo \/ FnMainLoopMp

SpecMp == InitMp /\ [][NextMp]_vars

----------------------------------------------------------------------------
(* The page loop of the fetch of automaton-2.py, one iteration a step:      *)
(* SpecFetch2. idx is `page`, recent is all_recent_videos, outcome tells how *)
(* the loop ended.                                                          *)

InitFetch2 ==
    /\ variant = "a2"
    /\ env = [token |-> TRUE, client_id |-> TRUE, client_secret |-> TRUE]
    /\ \E n \in FetchLengths, r \in FetchLengths, b \in BOOLEAN, now \in Nows :
         /\ r <= n
         /\ since = now - LOOKBACK_HOURS * 3600
         /\ account = FetchListing(n, r, b, since)
    /\ run = 1
    /\ pc = "fetch_page"
    /\ recent = <<>>
    /\ todo = <<>>
    /\ idx = 1
    /\ counters = NoCounters2
    /\ calls = <<>>
    /\ classified = {}
    /\ outcome = "running"
    /\ failed = FALSE
    /\ probe = NoProbe

\* Mutant: after a failed request the function returns an empty list
OnRequestError2_Empty(all_recent_videos) == <<>>

\* except RequestException: break, then return all_recent_videos
OnRequestError2(all_recent_videos) == all_recent_videos

\* The request of page idx raises (client.get or raise_for_status)
A2FetchRequestError ==
    /\ pc = "fetch_page"
    /\ pc' = "fetched"
    /\ outcome' = "request_error"
    /\ failed' = TRUE
    /\ recent' = OnRequestError2(recent)
    /\ UNCHANGED <<variant, env, account, run, since, todo, idx, counters, calls,
                   classified, probe>>

\* The request of page idx succeeds: one iteration of the while loop
A2FetchPage ==
    /\ pc = "fetch_page"
    /\ LET videos_on_page == PageOf(account, idx)
           r == ScanPage2(videos_on_page, 1, recent, since)
       IN  IF videos_on_page = <<>>
           THEN /\ pc' = "fetched" /\ outcome' = "empty_page"
                /\ UNCHANGED <<recent, idx>>
           ELSE IF r.stop
           THEN /\ pc' = "fetched"
                /\ outcome' = IF r.raised THEN "crashed" ELSE "older_item"
                /\ recent' = r.videos
                /\ idx' = idx
           ELSE IF idx >= LastPage(account)
           THEN /\ pc' = "fetched" /\ outcome' = "no_next"
                /\ recent' = r.videos
                /\ idx' = idx
           ELSE /\ pc' = pc /\ outcome' = outcome
                /\ recent' = r.videos
                /\ idx' = idx + 1
    /\ UNCHANGED <<variant, env, account, run, since, todo, counters, calls,
                   classified, failed, probe>>

NextFetch2 == A2FetchRequestError \/ A2FetchPage

\* The script is a sequential program: while the loop has not ended its next
\* iteration is taken
SpecFetch2 == InitFetch2 /\ [][NextFetch2]_vars /\ WF_vars(NextFetch2)

----------------------------------------------------------------------------
(* Notions the properties are stated with *)

\* America/Chicago: UTC-6 until 2024-03-10T08:00:00Z, UTC-5 from then on
LocalOffset(t) == IF t < 115200 THEN 21600 ELSE 18000

\* Local clock time (seconds after local midnight) and local calendar date
LocalClock(t) == (t + 86400 - LocalOffset(t)) % 86400
LocalDate(t) == DateStrings[((t + 86400 - LocalOffset(t)) \div 86400)]
UtcDate(t) == DateStrings[(t \div 86400) + 1]

Seconds(hhmm) == hhmm[1] * 3600 + hhmm[2] * 60

\* t in [start, end), past midnight when start > end
InHalfOpen(t, start_str, end_str) ==
    IF Seconds(start_str) <= Seconds(end_str)
    THEN Seconds(start_str) <= t /\ t < Seconds(end_str)
    ELSE t >= Seconds(start_str) \/ t < Seconds(end_str)

\* t in [start, end], past midnight when start > end
InClosed(t, start_str, end_str) ==
    IF Seconds(start_str) <= Seconds(end_str)
    THEN Seconds(start_str) <= t /\ t <= Seconds(end_str)
    ELSE t >= Seconds(start_str) \/ t <= Seconds(end_str)

VideoId(v) == v.uri[2]
InExcluded(v) ==
    /\ Len(v.parent_folder) = 2
    /\ v.parent_folder[1] = "folders"
    /\ v.parent_folder[2] \in EXCLUDED_FOLDER_IDS
CallsFor(vid) == { i \in 1..Len(calls) : calls[i].vid = vid }
Patches == { i \in 1..Len(calls) : calls[i].op = "patch" }
Puts == { i \in 1..Len(calls) : calls[i].op = "put" }
VideoOfCall(i) == account[PosOfId(account, calls[i].vid)]
Fetched(v) == \E j \in 1..Len(recent) : recent[j].uri = v.uri
CountDate(text, d) == Cardinality({ k \in 1..Len(text) : text[k] = d })

\* The live event id of a video whose live event is a rule key, else None
RuleOf(v) ==
    IF Len(v.live_event) = 2 /\ v.live_event[1] = "live_events" /\ v.live_event[2] \in RuleIds
    THEN v.live_event[2] ELSE None
RuleFolderId(e) == DESTINATION_FOLDERS[SERVICE_TYPE_RULES[e].folder]

\* The creation time, as a UTC clock time, passes a range of rule e
UtcInsideRule(v, e) ==
    /\ v.created_time.kind = "iso"
    /\ \E k \in 1..Len(SERVICE_TYPE_RULES[e].time_ranges) :
         InClosed(v.created_time.at % 86400, SERVICE_TYPE_RULES[e].time_ranges[k][1],
                  SERVICE_TYPE_RULES[e].time_ranges[k][2])

\* The creation time, as a local clock time, lies in a range of rule e
LocalInsideRule(v, e) ==
    /\ v.created_time.kind = "iso"
    /\ \E k \in 1..Len(SERVICE_TYPE_RULES[e].time_ranges) :
         InHalfOpen(LocalClock(v.created_time.at), SERVICE_TYPE_RULES[e].time_ranges[k][1],
                    SERVICE_TYPE_RULES[e].time_ranges[k][2])

\* The worship broadcast windows of the design: Saturday 18:30-20:00 and
\* Sunday 10:00-14:00, local time (2024-03-09 is a Saturday)
InWorshipWindows(t) ==
    LET day == (t + 86400 - LocalOffset(t)) \div 86400
        clock == LocalClock(t)
    IN  \/ (day = 1 /\ 66600 <= clock /\ clock < 72000)
        \/ (day = 2 /\ 36000 <= clock /\ clock < 50400)

\* The folder the keyword scheme of the design gives a title at instant t
KeywordSchemeFolder(text, t) ==
    LET n == KeywordFolderName(text)
    IN  IF n = None THEN None
        ELSE IF n = "Worship Services" /\ ~InWorshipWindows(t)
        THEN DESTINATION_FOLDERS["Weddings and Memorials"]
        ELSE DESTINATION_FOLDERS[n]

----------------------------------------------------------------------------
(* Properties *)

\* C1: in automaton-2.py, a second run of main over the same videos, after a
\* first run all of whose requests (title updates and folder additions
\* included) succeeded, sends no title update and no folder addition.
C1_SecondRunSendsNothing ==
    (variant = "a2" /\ run = 2 /\ ~failed) => calls = <<>>

\* C2: in every variant, a video whose current parent folder is one of
\* EXCLUDED_FOLDER_IDS is sent no title update and no folder move, and is
\* never handed to classification.
C2_ExcludedUntouched ==
    \A k \in 1..Len(account) :
        InExcluded(account[k]) =>
            /\ CallsFor(VideoId(account[k])) = {}
            /\ VideoId(account[k]) \notin classified

\* Reached: a run of automaton-2.py ended with its summary after it fetched
\* an undated video of a rule's live event lying in an excluded folder, and
\* sent requests for another video.
C2_Witness ==
    /\ variant = "a2" /\ outcome = "summary" /\ calls # <<>>
    /\ \E k \in 1..Len(account) :
         /\ InExcluded(account[k])
         /\ Fetched(account[k])
         /\ RuleOf(account[k]) # None
         /\ account[k].name.text = <<"Sunday Worship">>

\* C3: in automaton-2.py and automaton.py, a title update is sent only for a
\* title that does not hold the video's creation date, every title sent holds
\* that date, and no title ever holds the date more than once.
C3_DateAddedOnce ==
    variant \in {"a2", "a1"} =>
        /\ \A i \in Patches :
             /\ CountDate(calls[i].old, UtcDate(VideoOfCall(i).created_time.at)) = 0
             /\ CountDate(calls[i].title, UtcDate(VideoOfCall(i).created_time.at)) >= 1
        /\ \A k \in 1..Len(account) :
             CountDate(account[k].name.text, UtcDate(account[k].created_time.at)) <= 1

\* Reached: a second run of automaton-2.py ended with its summary, having
\* processed without any title update a video whose date an earlier run added.
C3_Witness ==
    /\ variant = "a2" /\ run = 2 /\ outcome = "summary" /\ Patches = {}
    /\ \E k \in 1..Len(account) :
         /\ VideoId(account[k]) \in classified
         /\ account[k].name.text = <<"Sunday Worship", " (", "2024-03-11", ")">>

\* C4 as stated: the time-window test is true exactly when t lies in the
\* half-open range [start, end), past midnight when start > end; t = end is
\* outside.
C4_HalfOpenWindow ==
    probe.op = "time_in_range" =>
        (probe.result <=> InHalfOpen(probe.t, probe.start, probe.end))

\* C4 as amended: the time-window test is true exactly when t lies in the
\* closed range [start, end] (start <= t <= end, or t >= start or t <= end
\* when start > end); t = end is inside.
C4_ClosedWindow ==
    probe.op = "time_in_range" =>
        /\ probe.result <=> InClosed(probe.t, probe.start, probe.end)
        /\ probe.t = Seconds(probe.end) => probe.result

\* Reached: the test was applied to t = end of an overnight range and held.
C4_Witness ==
    /\ probe.op = "time_in_range"
    /\ probe.t = Seconds(probe.end)
    /\ Seconds(probe.start) > Seconds(probe.end)
    /\ probe.result

\* C5: the time-window test accepts 23:45 for 22:00-02:00, rejects 10:00 for
\* 22:00-02:00, accepts 09:30 for 09:20-12:00; for start > end it accepts
\* every t with t >= start or t < end and rejects every t with end < t < start.
C5_WindowExamples ==
    probe.op = "time_in_range" =>
        /\ (probe.t = 85500 /\ probe.start = <<22, 0>> /\ probe.end = <<2, 0>>)
              => probe.result
        /\ (probe.t = 36000 /\ probe.start = <<22, 0>> /\ probe.end = <<2, 0>>)
              => ~probe.result
        /\ (probe.t = 34200 /\ probe.start = <<9, 20>> /\ probe.end = <<12, 0>>)
              => probe.result
        /\ Seconds(probe.start) > Seconds(probe.end) =>
              /\ (probe.t >= Seconds(probe.start) \/ probe.t < Seconds(probe.end))
                    => probe.result
              /\ (Seconds(probe.end) < probe.t /\ probe.t < Seconds(probe.start))
                    => ~probe.result

\* Reached: the test was applied to 23:45 and the range 22:00-02:00 and held.
C5_Witness ==
    /\ probe.op = "time_in_range"
    /\ probe.t = 85500 /\ probe.start = <<22, 0>> /\ probe.end = <<2, 0>>
    /\ probe.result

\* C6: a video whose live event is a rule key, created inside one of the
\* rule's ranges, and whose title holds a keyword of another category gets the
\* folder of the rule, not the folder of the keyword.
C6_EventRuleBeatsKeyword ==
    probe.op = "determine" =>
        LET v == probe.video
            e == RuleOf(v)
            kw == KeywordFolderName(v.name.text)
        IN  (/\ e # None
             /\ UtcInsideRule(v, e)
             /\ kw # None
             /\ DESTINATION_FOLDERS[kw] # RuleFolderId(e))
            => probe.result = RuleFolderId(e)

\* Reached: a video of the memorial live event 4972294 titled "Sunday
\* Worship", created at 10:00, was given the Weddings and Memorials folder.
C6_Witness ==
    /\ probe.op = "determine"
    /\ probe.video.live_event = <<"live_events", "4972294">>
    /\ probe.video.name.text = <<"Sunday Worship">>
    /\ probe.video.created_time = Iso(86400 + 36000)
    /\ probe.result = "2478125"

\* C7: a rule's ranges are compared with the local (America/Chicago) clock
\* time of the creation time: a video of a rule's live event created at a
\* local time inside one of the rule's ranges gets the rule's folder; a video
\* of live event 3261302 created Sunday 10:15 local gets Worship Services.
C7_LocalTimeWindows ==
    probe.op = "determine" =>
        LET v == probe.video
            e == RuleOf(v)
        IN  /\ (e # None /\ LocalInsideRule(v, e)) => probe.result = RuleFolderId(e)
            /\ (e = "3261302" /\ v.created_time = Iso(141300))
                  => probe.result = "15749517"

\* C8 as stated: the title written for a classified video is
\* '{local date} - {name of the matched rule}', the date first.
C8_CanonicalTitle ==
    \A i \in Patches :
        LET v == VideoOfCall(i)
        IN  (RuleOf(v) # None /\ UtcInsideRule(v, RuleOf(v))) =>
                calls[i].title = << LocalDate(v.created_time.at), " - ",
                                    SERVICE_TYPE_RULES[RuleOf(v)].name >>

\* C8 as amended: every title automaton-2.py or automaton.py writes is the
\* title read followed by ' ({date})', the date last, where the date is the
\* UTC calendar date of the creation time; for live event 3261302 created
\* 2024-03-10T15:15Z (10:15 local) it is '{title} (2024-03-10)'.
C8_AppendedTitle ==
    variant \in {"a2", "a1"} =>
        \A i \in Patches :
            LET v == VideoOfCall(i)
            IN  /\ calls[i].title = calls[i].old \o <<" (", UtcDate(v.created_time.at), ")">>
                /\ (RuleOf(v) = "3261302" /\ v.created_time = Iso(141300))
                      => calls[i].title = calls[i].old \o <<" (", "2024-03-10", ")">>

\* Reached: automaton-2.py wrote 'Sunday Worship (2024-03-11)' for a video of
\* live event 4972294 created 2024-03-11T02:00Z, 2024-03-10 in local time.
C8_Witness ==
    /\ variant = "a2"
    /\ \E i \in Patches :
         /\ calls[i].ok
         /\ RuleOf(VideoOfCall(i)) = "4972294"
         /\ LocalDate(VideoOfCall(i).created_time.at) = "2024-03-10"
         /\ calls[i].title = <<"Sunday Worship", " (", "2024-03-11", ")">>

\* C9 as stated: a video no event rule matched is classified from its title
\* keywords: worship inside the worship windows, memorial-or-wedding for a
\* worship keyword outside them and for 'memorial' or 'wedding', class for
\* 'class'.
C9_KeywordClassification ==
    probe.op = "determine" =>
        LET v == probe.video
            e == RuleOf(v)
        IN  (/\ v.created_time.kind = "iso"
             /\ (e = None \/ ~UtcInsideRule(v, e))
             /\ KeywordFolderName(v.name.text) # None)
            => probe.result = KeywordSchemeFolder(v.name.text, v.created_time.at)

\* C9 as amended: a video no event rule matched gets no destination folder,
\* whatever keywords its title holds and whenever it was created.
C9_NoRuleNoFolder ==
    probe.op = "determine" =>
        LET v == probe.video
            e == RuleOf(v)
        IN  (e = None \/ (v.created_time.kind = "iso" /\ ~UtcInsideRule(v, e)))
            => probe.result = None

\* Reached: a video without live event titled "Sunday Worship", created
\* Sunday 10:15 local, was given no folder.
C9_Witness ==
    /\ probe.op = "determine"
    /\ probe.video.live_event = <<>>
    /\ probe.video.name.text = <<"Sunday Worship">>
    /\ probe.video.created_time.kind = "iso"
    /\ InWorshipWindows(probe.video.created_time.at)
    /\ probe.result = None

\* C10: in every variant, a video that is not playable is sent no title
\* update and no folder move.
C10_UnplayableUntouched ==
    \A k \in 1..Len(account) :
        ~account[k].is_playable => CallsFor(VideoId(account[k])) = {}

\* The video as the current run read it, before any of its requests
TodoOf(vid) == todo[CHOOSE k \in 1..Len(todo) : todo[k].uri = <<"videos", vid>>]

\* The code determines a destination folder for v: v comes from a rule's live
\* event and its creation time passes one of the rule's ranges
RuleMatched(v) == RuleOf(v) # None /\ UtcInsideRule(v, RuleOf(v))

C12_NoVideoAbortsRun ==
    variant = "a2" =>
        /\ outcome # "crashed"
        /\ (pc = "done" /\ todo # <<>>) => (outcome = "summary" /\ idx = Len(todo) + 1)

\* The write requests of the current run that failed
FailedCalls == { i \in 1..Len(calls) : ~calls[i].ok }

\* C13: in automaton-2.py every video one of whose requests (title update or
\* folder move) failed is counted in skipped_count, no failed request is sent
\* again within the run, and the run goes on to its summary.
C13_FailedCallsCounted ==
    variant = "a2" =>
        /\ counters.skipped_count >= Cardinality({ calls[i].vid : i \in FailedCalls })
        /\ \A i \in FailedCalls : \A j \in 1..Len(calls) :
             i < j => ~(calls[j].op = calls[i].op /\ calls[j].vid = calls[i].vid)
        /\ (pc = "done" /\ FailedCalls # {}) => outcome = "summary"

\* determine_destination_folder_id returns None for v: in automaton-2.py no
\* rule matched; in automaton.py the live event is no rule key (for a rule key
\* it raises)
NoRule(v) == IF variant = "a1" THEN RuleOf(v) = None ELSE ~RuleMatched(v)

\* C14 as stated: in automaton-2.py and automaton.py a processed video for
\* which no rule matched is sent no request at all, neither a title update nor
\* a folder move.
C14_NoRuleNoMutation ==
    variant \in {"a2", "a1"} =>
        \A vid \in classified : NoRule(TodoOf(vid)) => CallsFor(vid) = {}

\* C14 as amended: in automaton-2.py and automaton.py a processed video for
\* which no rule matched is sent no folder move; the one request it can get is
\* the title update that appends its creation date.
C14_NoRuleNoMove ==
    variant \in {"a2", "a1"} =>
        \A vid \in classified :
            NoRule(TodoOf(vid)) =>
                \A i \in CallsFor(vid) :
                    /\ calls[i].op = "patch"
                    /\ calls[i].title = calls[i].old \o
                           <<" (", UtcDate(TodoOf(vid).created_time.at), ")">>

\* Reached: automaton-2.py reached its summary after it sent a title update,
\* and no folder move, for a video without live event.
C14_Witness ==
    /\ variant = "a2" /\ outcome = "summary"
    /\ \E vid \in classified :
         /\ TodoOf(vid).live_event = <<>>
         /\ \E i \in CallsFor(vid) : calls[i].op = "patch" /\ calls[i].ok
         /\ \A i \in CallsFor(vid) : calls[i].op = "patch"

\* main has sent no request to the hosting API in the current run: it is at
\* its start or it returned at the test of the credentials
NoRequestSent ==
    /\ pc = "start" \/ outcome = "no_credentials"
    /\ recent = <<>> /\ calls = <<>>

\* C15 as stated: in every variant, when the access token, the client ID or
\* the client secret is unset, main returns before any request is sent.
C15_NoRequestWithoutCredentials ==
    (~env.token \/ ~env.client_id \/ ~env.client_secret) => NoRequestSent

\* C15 as amended: automaton-2.py and automaton_mp.py return before any
\* request when any of the three is unset; automaton.py does so when the
\* access token is unset and the client ID or the client secret is unset too.
C15_NoRequestWithoutCredentialsByVariant ==
    /\ (variant \in {"a2", "mp"} /\ (~env.token \/ ~env.client_id \/ ~env.client_secret))
          => NoRequestSent
    /\ (variant = "a1" /\ ~env.token /\ (~env.client_id \/ ~env.client_secret))
          => NoRequestSent

\* Reached: automaton-2.py, given the access token and the client ID but no
\* client secret, returned at the test of the credentials.
C15_Witness ==
    /\ variant = "a2" /\ env.token /\ env.client_id /\ ~env.client_secret
    /\ pc = "done" /\ outcome = "no_credentials"

\* C16: for a listing sorted newest first whose items all have a parseable
\* created_time, and no failing request, the fetch of automaton-2.py returns
\* exactly the items created later than since, in listing order, and the last
\* page it requests is the page of the first item not later than since.
C16_FetchReturnsRecent ==
    probe.op = "fetch" =>
        LET olds == { p \in 1..Len(probe.listing) :
                        probe.listing[p].created_time.at <= probe.since }
        IN  /\ ~probe.raised
            /\ probe.result =
                 SelectSeq(probe.listing, LAMBDA v : v.created_time.at > probe.since)
            /\ olds # {} => probe.pages = ((SetMin(olds) - 1) \div PER_PAGE) + 1

\* Reached: for a listing of 201 items, 100 recent ones followed by an item
\* created exactly at since, the fetch returned the 100 and stopped at page 2.
C16_Witness ==
    /\ probe.op = "fetch"
    /\ Len(probe.listing) = 201
    /\ probe.listing[101].created_time.at = probe.since
    /\ Len(probe.result) = 100
    /\ probe.pages = 2

Distance(a, b) == IF a >= b THEN a - b ELSE b - a

\* The first event of the cache whose start is nearest to t
NearestIn(t, cache) ==
    SetMin({ k \in 1..Len(cache) :
               \A j \in 1..Len(cache) :
                   Distance(t, cache[k].Event_Start_Date_dt)
                       <= Distance(t, cache[j].Event_Start_Date_dt) })

\* C17: find_closest_event_in_cache returns None for an empty cache; otherwise
\* it returns the first event whose start is nearest to t when that distance
\* is at most 60 minutes, and None when it is more.
C17_ClosestEvent ==
    probe.op = "closest" =>
        /\ probe.result # Raised
        /\ IF probe.cache = <<>>
           THEN probe.result = None
           ELSE LET best == probe.cache[NearestIn(probe.t, probe.cache)]
                IN  IF Distance(probe.t, best.Event_Start_Date_dt)
                           <= MAX_TIME_DIFFERENCE * 60
                    THEN probe.result = best
                    ELSE probe.result = None

\* C18: across a run of automaton-2.py every write request is a PATCH of a
\* name or a PUT into a folder, for a video the fetch returned, and no step
\* changes the number of videos or a video's uri, created_time or live event.
C18_OnlyTitleAndFolderChange ==
    /\ [](variant = "a2" =>
            \A i \in 1..Len(calls) :
                /\ calls[i].op \in {"patch", "put"}
                /\ \E k \in 1..Len(recent) : recent[k].uri = <<"videos", calls[i].vid>>)
    /\ [][variant = "a2" =>
            /\ Len(account') = Len(account)
            /\ \A k \in 1..Len(account) :
                 /\ account'[k].uri = account[k].uri
                 /\ account'[k].created_time = account[k].created_time
                 /\ account'[k].live_event = account[k].live_event]_vars

\* Reached: automaton-2.py reached its summary after a title update and a
\* folder move that both succeeded.
C18_Witness ==
    /\ variant = "a2" /\ outcome = "summary"
    /\ \E i \in Patches : calls[i].ok
    /\ \E j \in Puts : calls[j].ok

\* The fetched videos the filter dropped for their excluded parent folder
DroppedAsExcluded == { k \in 1..Len(recent) : InExcluded(recent[k]) }

\* C19: in automaton-2.py and automaton.py the summary of a run counts every
\* video dropped for its excluded parent folder as skipped: skipped_count
\* (automaton-2.py) or skipped_by_folder_count (automaton.py) is at least the
\* number of those videos.
C19_ExcludedCountedAsSkipped ==
    (variant \in {"a2", "a1"} /\ outcome = "summary") =>
        IF variant = "a2"
        THEN counters.skipped_count >= Cardinality(DroppedAsExcluded)
        ELSE counters.skipped_by_folder_count >= Cardinality(DroppedAsExcluded)

\* The folder the code determines for v: the rule's folder in automaton-2.py
\* when the rule matched; none in automaton.py, whose
\* determine_destination_folder_id returns None or raises
DeterminedFolder(v) ==
    IF variant = "a2" /\ RuleMatched(v) THEN RuleFolderId(RuleOf(v)) ELSE None

\* C20: in automaton-2.py and automaton.py a processed video is sent a folder
\* move exactly when a destination folder was determined for it and the
\* parent folder it was fetched with is another one.
C20_MoveOnlyWhenElsewhere ==
    variant \in {"a2", "a1"} =>
        \A vid \in classified :
            LET v == TodoOf(vid)
                sent == \E j \in Puts : calls[j].vid = vid
            IN  sent <=> (/\ DeterminedFolder(v) # None
                          /\ v.parent_folder # <<"folders", DeterminedFolder(v)>>)

\* The text holds a '/<prefix>/<digits>' part that starts at position i
HasIdPart(text, prefix, i) ==
    /\ i + Len(prefix) + 2 <= Len(text)
    /\ SubSeq(text, i, i + Len(prefix) + 1) = <<"/">> \o prefix \o <<"/">>
    /\ text[i + Len(prefix) + 2] \in {"1", "2"}

\* s is the digit string that follows the '/<prefix>/' at position i: digits
\* only, as many as the text has there
FollowsPrefix(text, prefix, i, s) ==
    LET j == i + Len(prefix) + 2
    IN  /\ s # <<>>
        /\ j + Len(s) - 1 <= Len(text)
        /\ SubSeq(text, j, j + Len(s) - 1) = s
        /\ \A k \in 1..Len(s) : s[k] \in {"1", "2"}
        /\ (j + Len(s) <= Len(text)) => text[j + Len(s)] \notin {"1", "2"}

\* C21: get_id_from_uri never raises; it returns None for None, for a value
\* that is no string, for the empty string and for a text without a
\* '/<prefix>/<digits>' part (a URI of another resource kind included), and
\* otherwise the digit string that follows the first '/<prefix>/' that digits
\* follow.
C21_GetIdFromUri ==
    probe.op = "get_id" =>
        LET text == probe.uri.chars
            parts == { i \in 1..Len(text) : HasIdPart(text, probe.prefix, i) }
        IN  /\ probe.result.kind # "raised"
            /\ IF probe.uri.kind # "str" \/ text = <<>> \/ parts = {}
               THEN probe.result.kind = "none"
               ELSE /\ probe.result.kind = "str"
                    /\ FollowsPrefix(text, probe.prefix, SetMin(parts), probe.result.chars)

\* Reached: for the text '/x/1/v/2' and the prefix 'v' the call returned '2',
\* the digits after '/v/', not the '1' after '/x/'.
C21_Witness ==
    /\ probe.op = "get_id"
    /\ probe.uri.chars = <<"/", "x", "/", "1", "/", "v", "/", "2">>
    /\ probe.prefix = <<"v">>
    /\ probe.result = Str(<<"2">>)

\* C22: in automaton-2.py every folder ID passed to add_video_to_folder is a
\* value of DESTINATION_FOLDERS, those values are disjoint from
\* EXCLUDED_FOLDER_IDS (so is the folder of every rule), and no video is added
\* to an excluded folder.
C22_NeverMovedIntoExcluded ==
    variant = "a2" =>
        /\ DestinationFolderIds \cap EXCLUDED_FOLDER_IDS = {}
        /\ \A e \in RuleIds :
             DestinationFoldersGet(SERVICE_TYPE_RULES[e].folder)
                 \in DestinationFolderIds \ EXCLUDED_FOLDER_IDS
        /\ \A j \in Puts :
             /\ calls[j].folder \in DestinationFolderIds
             /\ calls[j].folder \notin EXCLUDED_FOLDER_IDS

\* Reached: a run of automaton-2.py that fetched a video lying in an excluded
\* folder moved another video into folder 2478125 and reached its summary.
C22_Witness ==
    /\ variant = "a2" /\ outcome = "summary"
    /\ \E j \in Puts : calls[j].ok /\ calls[j].folder = "2478125"
    /\ \E k \in 1..Len(account) : InExcluded(account[k]) /\ Fetched(account[k])

\* C23: in automaton.py determine_destination_folder_id raises for no video;
\* it returns the folder of the rule of the video's live event when the
\* creation time passes one of the rule's ranges or cannot be read, and None
\* when the video has no live event or no rule matches.
C23_Determine1Returns ==
    probe.op = "determine1" =>
        LET v == probe.video
            e == RuleOf(v)
        IN  /\ probe.result # Raised
            /\ IF e # None /\ (v.created_time.kind # "iso" \/ UtcInsideRule(v, e))
               THEN probe.result = RuleFolderId(e)
               ELSE probe.result = None

\* The live events whose rule has the range ("00:00", "23:59")
AllDayEvents == { e \in RuleIds : SERVICE_TYPE_RULES[e].time_ranges = <<AllDay>> }

\* C24: in automaton-2.py a video of a live event whose rule has the all-day
\* range (4972294, 3867304, 3251895, 3378887) gets the folder of that rule
\* for every creation time of day, the last minute before midnight included.
C24_AllDayRuleAlwaysMatches ==
    /\ AllDayEvents = {"4972294", "3867304", "3251895", "3378887"}
    /\ probe.op = "determine" =>
         LET v == probe.video
         IN  (RuleOf(v) \in AllDayEvents /\ v.created_time.kind = "iso")
                 => probe.result = RuleFolderId(RuleOf(v))

\* The created_time of v can be read and is later than t
LaterThan(v, t) == v.created_time.kind = "iso" /\ v.created_time.at > t

\* C25: the fetch of automaton.py returns every video of the listing that is
\* created later than since and precedes the first item not later than
\* since, in listing order, also when a page holds only items whose
\* created_time is missing or unparseable.
C25_Fetch1ReturnsAllRecent ==
    probe.op = "fetch1" =>
        LET olds == { p \in 1..Len(probe.listing) :
                        /\ probe.listing[p].created_time.kind = "iso"
                        /\ probe.listing[p].created_time.at <= probe.since }
            before == IF olds = {} THEN Len(probe.listing) ELSE SetMin(olds) - 1
        IN  probe.result =
                SelectSeq(SubSeq(probe.listing, 1, before),
                          LAMBDA v : LaterThan(v, probe.since))

\* C26: in automaton.py, at every end of an iteration of the processing loop
\* and at the summary, videos_updated_title_count +
\* videos_skipped_title_update and videos_sorted_count +
\* videos_skipped_sorting both equal the number of videos handled so far, and
\* every iteration adds exactly one to one title counter and exactly one to
\* one sorting counter.
C26_CountersMatchHandled ==
    /\ []((variant = "a1" /\ (pc = "process" \/ outcome = "summary")) =>
            /\ counters.videos_updated_title_count
                  + counters.videos_skipped_title_update = idx - 1
            /\ counters.videos_sorted_count
                  + counters.videos_skipped_sorting = idx - 1)
    /\ [][(variant = "a1" /\ pc = "process" /\ pc' = "process" /\ idx' = idx + 1) =>
            /\ \/ /\ counters'.videos_updated_title_count
                         = counters.videos_updated_title_count + 1
                    /\ counters'.videos_skipped_title_update
                         = counters.videos_skipped_title_update
                \/ /\ counters'.videos_updated_title_count
                         = counters.videos_updated_title_count
                    /\ counters'.videos_skipped_title_update
                         = counters.videos_skipped_title_update + 1
            /\ \/ /\ counters'.videos_sorted_count = counters.videos_sorted_count + 1
                    /\ counters'.videos_skipped_sorting = counters.videos_skipped_sorting
                \/ /\ counters'.videos_sorted_count = counters.videos_sorted_count
                    /\ counters'.videos_skipped_sorting
                         = counters.videos_skipped_sorting + 1]_vars

\* Reached: automaton.py reached its summary after two videos, the title of
\* one updated, the title update of the other skipped, neither sorted.
C26_Witness ==
    /\ variant = "a1" /\ outcome = "summary" /\ idx = 3
    /\ counters.videos_updated_title_count = 1
    /\ counters.videos_skipped_title_update = 1
    /\ counters.videos_skipped_sorting = 2

\* moved_count <= updated_count <= processed_count <= scanned_count
CountersOrdered(c) ==
    /\ c.moved_count <= c.updated_count
    /\ c.updated_count <= c.processed_count
    /\ c.processed_count <= c.scanned_count

\* C27: in automaton_mp.py moved_count <= updated_count <= processed_count <=
\* scanned_count in every state of a run of main and after the loop of main
\* over any list of videos, and process_video reports a video as moved only
\* if it reports its title as updated.
C27_CountersOrdered ==
    /\ variant = "mp" => CountersOrdered(counters)
    /\ probe.op = "main_loop" => CountersOrdered(probe.result.counters)
    /\ probe.op = "process_video" =>
          (probe.result.moved => probe.result.title_updated)

\* Reached: the loop of main went over two videos, one of them not playable,
\* and processed the other one without raising.
C27_Witness ==
    /\ probe.op = "main_loop"
    /\ Len(probe.videos) = 2
    /\ ~probe.result.raised
    /\ probe.result.counters.scanned_count = 2
    /\ probe.result.counters.processed_count = 1
    /\ \E k \in 1..2 : ~probe.videos[k].is_playable

\* The positions of the listing whose item is not later than since
NotLater == { p \in 1..Len(account) : account[p].created_time.at <= since }

\* The number of items the page loop has gone over when it ends
GoneOver ==
    CASE outcome = "older_item" -> SetMin(NotLater) - 1
      [] outcome = "request_error" -> (idx - 1) * PER_PAGE
      [] OTHER -> Len(account)

\* C28: for every finite listing whose created_time values all parse, the
\* page loop of the fetch of automaton-2.py ends, and it ends on an empty
\* page, on a page without next link, at the first item not later than since
\* or on a failed request, in each case returning the videos collected up to
\* that point: the items gone over, all of them later than since.
C28_FetchTerminates ==
    /\ <>(pc = "fetched")
    /\ [](pc = "fetched" =>
            /\ outcome \in {"empty_page", "no_next", "older_item", "request_error"}
            /\ outcome = "empty_page" => account = <<>>
            /\ outcome = "no_next" => (NotLater = {} /\ idx = LastPage(account))
            /\ outcome = "older_item" =>
                  (NotLater # {} /\ idx = ((SetMin(NotLater) - 1) \div PER_PAGE) + 1)
            /\ recent = SubSeq(account, 1, GoneOver)
            /\ \A k \in 1..Len(recent) : recent[k].created_time.at > since)

\* Reached: the request of page 2 failed and the loop ended with the 100
\* videos of page 1.
C28_Witness ==
    /\ pc = "fetched" /\ outcome = "request_error"
    /\ idx = 2
    /\ Len(recent) = 100

\* The page loop taken step by step returns what FetchPages2 computes
FetchStepsAgree ==
    pc = "fetched" =>
        recent = get_recent_videos_with_folder_and_live_event_info(
                     account, since, IF outcome = "request_error" THEN idx ELSE 0).videos

====
